---------------------------- MODULE Spec2Model ----------------------------
(***************************************************************************)
(* A model of the AVX512 backend of intgemm (src/avx512_gemm.h):           *)
(*   - AVX512_8bit::Multiply as a step machine (specification Spec),       *)
(*   - AVX512_8bit::Quantize and avx512f::QuantizeTile8::ForReshape on     *)
(*     single-precision inputs (specification SpecQuantize),               *)
(*   - SelectColumnsB of both backends on a packed B (SpecSelect).         *)
(* Registers are tuples of lanes; bytes, 16-bit and 32-bit lanes are       *)
(* signed integers kept in their width by the saturating / wrapping        *)
(* operators below.  All buffers are 64-byte aligned (line 22 of the       *)
(* source); the build modelled is the one with assertions enabled.         *)
(***************************************************************************)
EXTENDS Integers, Sequences, FiniteSets, TLC

(***************************************************************************)
(* Bounds of the model.                                                    *)
(***************************************************************************)
MaxARows == 2
MaxChunks == 2
MaxStrips == 2
MaxOverrun == 2

(***************************************************************************)
(* Program constants.                                                      *)
(***************************************************************************)
RegBytes == 64
ColStride == 8
Int16Max == 32767
Int16Min == -32768

VARIABLES
  pc,          \* position in Multiply
  A, B,        \* the quantized A (row-major bytes) and the packed B (bytes)
  A_rows, width, B_cols,
  simd_width, B0_colidx, B0_col, A_rowidx, A_live, A_end, B_live,
  sums,        \* sum0..sum7: 8 registers of 32 16-bit lanes
  callbacks,   \* the invocations of callback_impl, in order
  readsA, readsB, \* register indices read for the current (row, strip)
  readlog      \* per finished (row, strip): what was read and from which base

VARIABLES
  q_input,     \* the float buffer handed to Quantize / ForReshape
  q_mult,      \* quant_mult
  q_size,      \* Quantize's size
  q_cols,      \* the column count of the float matrix ForReshape reads
  q_off,       \* the offset of ForReshape's input pointer in the buffer
  q_output,    \* Quantize's output
  q_tile,      \* the register ForReshape returns
  q_called     \* which of the two have run

qvars == <<q_input, q_mult, q_size, q_cols, q_off, q_output, q_tile, q_called>>

VARIABLES
  s_backend,   \* "8bit" or "16bit"
  s_rows, s_cols,
  s_packed,    \* PrepareB's output, element by element
  s_select,    \* the column indices [cols_begin, cols_end)
  s_output,    \* SelectColumnsB's output
  s_called

svars == <<s_backend, s_rows, s_cols, s_packed, s_select, s_output, s_called>>

mvars == <<pc, A, B, A_rows, width, B_cols, simd_width, B0_colidx, B0_col,
           A_rowidx, A_live, A_end, B_live, sums, callbacks, readsA, readsB,
           readlog>>

vars == <<mvars, qvars, svars>>

(***************************************************************************)
(* Lane arithmetic of the intrinsics Multiply uses.                        *)
(***************************************************************************)
Lanes8 == 1..RegBytes
Lanes16 == 1..(RegBytes \div 2)
Lanes32 == 1..(RegBytes \div 4)

Splat8(v) == [l \in Lanes8 |-> v]

Wrap8(x) == ((x + 128) % 256) - 128

Sat16(x) == IF x > Int16Max THEN Int16Max ELSE IF x < Int16Min THEN Int16Min ELSE x

Wrap16(x) == ((x + 32768) % 65536) - 32768

Unsigned8(x) == IF x < 0 THEN x + 256 ELSE x

\* _mm512_test_epi8_mask(a, set1(-128)): lane bit set iff a AND 0x80 is non-zero
TestEpi8Mask(a) == [l \in Lanes8 |-> a[l] < 0]

\* a mutant: the absolute value left out
AbsEpi8None(a) == a

\* _mm512_abs_epi8: |a| in 8 bits, so abs(-128) stays -128 (0x80)
AbsEpi8(a) == [l \in Lanes8 |-> IF a[l] < 0 THEN Wrap8(0 - a[l]) ELSE a[l]]

\* a mutant: one's complement (NOT) in place of the subtraction from zero
MaskSubEpi8Not(src, k, x, y) == [l \in Lanes8 |-> IF k[l] THEN Wrap8(x[l] - y[l] - 1) ELSE src[l]]

\* _mm512_mask_sub_epi8(src, k, x, y): x - y (wrapping) where k is set, else src
MaskSubEpi8(src, k, x, y) == [l \in Lanes8 |-> IF k[l] THEN Wrap8(x[l] - y[l]) ELSE src[l]]

\* _mm512_maddubs_epi16(a, b): unsigned a times signed b, adjacent pairs added
\* with signed 16-bit saturation
MaddubsEpi16(a, b) ==
  [i \in Lanes16 |->
     Sat16(Unsigned8(a[2*i - 1]) * b[2*i - 1] + Unsigned8(a[2*i]) * b[2*i])]

\* a mutant: wrapping 16-bit addition (_mm512_add_epi16)
AddEpi16Wrapping(x, y) == [i \in Lanes16 |-> Wrap16(x[i] + y[i])]

\* _mm512_adds_epi16: signed saturating 16-bit addition
AddsEpi16(x, y) == [i \in Lanes16 |-> Sat16(x[i] + y[i])]

\* madd_epi16(x, ones): adjacent 16-bit lanes widened and added into 32 bits
MaddEpi16Ones(x) == [i \in Lanes32 |-> x[2*i - 1] * 1 + x[2*i] * 1]

\* Pack0123: per 128-bit lane n, the four dwords are the lane sums of
\* sum0..sum3 (the result's dword 4*(n-1)+j is the sum of s_j's lane n)
Pack0123(s0, s1, s2, s3) ==
  LET S == <<s0, s1, s2, s3>>
      LaneSum(s, n) == s[4*n - 3] + s[4*n - 2] + s[4*n - 1] + s[4*n]
  IN [d \in Lanes32 |-> LaneSum(S[((d - 1) % 4) + 1], ((d - 1) \div 4) + 1)]

\* PermuteSummer: adds the four 128-bit lanes of each pack and lays the eight
\* column totals out contiguously
PermuteSummer(pack0123, pack4567) ==
  [j \in 1..8 |->
     IF j <= 4
     THEN pack0123[j] + pack0123[4 + j] + pack0123[8 + j] + pack0123[12 + j]
     ELSE pack4567[j - 4] + pack4567[j] + pack4567[4 + j] + pack4567[8 + j]]

(***************************************************************************)
(* Memory.  A and B are byte sequences; a register load takes 64 bytes at  *)
(* a register index.  A load outside the buffer is undefined behaviour:    *)
(* the build either faults or yields whatever bytes lie there.             *)
(***************************************************************************)
InBounds(mem, reg) == reg >= 0 /\ (reg + 1) * RegBytes <= Len(mem)

Load(mem, reg) == [l \in Lanes8 |-> mem[reg * RegBytes + l]]

Garbage == {Splat8(-128), Splat8(1)}

LoadOr(mem, reg, g) == IF InBounds(mem, reg) THEN Load(mem, reg) ELSE g

Zeros == Splat8(0)

ZeroSums == [j \in 1..8 |-> [i \in Lanes16 |-> 0]]

(***************************************************************************)
(* Inputs: buffers filled cyclically from short byte patterns.             *)
(***************************************************************************)
Fill(pat, n) == [i \in 1..n |-> pat[((i - 1) % Len(pat)) + 1]]

MixedA == <<3, -5, 127, -127, 0>>

ExtremeA == <<-1, 2, -128>>

MixedB == <<-7, 127, 2, -127, 0, 64, -3>>

\* <<pattern of A, pattern of B>>
InputCases ==
  { <<(<<0>>), (<<-128>>)>>, <<(<<0>>), MixedB>>,
    <<ExtremeA, (<<0>>)>>, <<(<<-128>>), (<<0>>)>>,
    <<(<<1>>), (<<1, 0, 0>>)>>, <<(<<1>>), MixedB>>,
    <<(<<127>>), (<<127>>)>>, <<(<<-127>>), (<<127>>)>>,
    <<(<<127>>), (<<-128>>)>>, <<(<<-128>>), (<<-128>>)>>,
    <<MixedA, MixedB>>, <<MixedA, (<<1>>)>>, <<ExtremeA, MixedB>> }

Widths == {RegBytes * k : k \in 0..MaxChunks} \cup {32, 96}

BColsSet == {ColStride * s : s \in 0..MaxStrips} \cup {4, 12}

QIdle ==
  /\ q_input = <<>> /\ q_mult = 0 /\ q_size = 0 /\ q_cols = 0 /\ q_off = 0
  /\ q_output = <<>> /\ q_tile = <<>> /\ q_called = {}

SIdle ==
  /\ s_backend = "" /\ s_rows = 0 /\ s_cols = 0 /\ s_packed = <<>>
  /\ s_select = <<>> /\ s_output = <<>> /\ s_called = FALSE

MIdle ==
  /\ pc = "" /\ A = <<>> /\ B = <<>> /\ A_rows = 0 /\ width = 0 /\ B_cols = 0
  /\ simd_width = 0 /\ B0_colidx = 0 /\ B0_col = 0 /\ A_rowidx = 0
  /\ A_live = 0 /\ A_end = 0 /\ B_live = 0 /\ sums = <<>>
  /\ callbacks = <<>> /\ readsA = <<>> /\ readsB = <<>> /\ readlog = <<>>

(***************************************************************************)
(* AVX512_8bit::Multiply, lines 221-330.                                   *)
(***************************************************************************)
Init ==
  \E r \in 0..MaxARows, w \in Widths, c \in BColsSet, io \in InputCases :
    /\ pc = "call"
    /\ A_rows = r /\ width = w /\ B_cols = c
    /\ A = Fill(io[1], r * w)
    /\ B = Fill(io[2], w * c)
    /\ simd_width = 0 /\ B0_colidx = 0 /\ B0_col = 0 /\ A_rowidx = 0
    /\ A_live = 0 /\ A_end = 0 /\ B_live = 0
    /\ sums = ZeroSums
    /\ callbacks = <<>> /\ readsA = <<>> /\ readsB = <<>> /\ readlog = <<>>
    /\ QIdle /\ SIdle

\* a mutant: the assertion on B_cols left out
AssertsHoldNoCols(w, c) == w % RegBytes = 0

\* lines 225-226: assert(width % sizeof(Integer) == 0); assert(B_cols % 8 == 0)
AssertsHold(w, c) == w % RegBytes = 0 /\ c % 8 = 0

\* lines 225-234: the assertions, then the set-up of the loops
Enter ==
  /\ pc = "call"
  /\ IF AssertsHold(width, B_cols)
     THEN /\ pc' = "strip_loop"
          /\ simd_width' = width \div RegBytes
          /\ B0_col' = 0
          /\ B0_colidx' = 0
     ELSE /\ pc' = "assert_failed"
          /\ UNCHANGED <<simd_width, B0_col, B0_colidx>>
  /\ UNCHANGED <<A, B, A_rows, width, B_cols, A_rowidx, A_live, A_end, B_live,
                 sums, callbacks, readsA, readsB, readlog>>
  /\ UNCHANGED <<qvars, svars>>

\* line 236: for (B0_colidx = 0; B0_colidx != B_cols; ...)
StripLoop ==
  /\ pc = "strip_loop"
  /\ IF B0_colidx # B_cols
     THEN pc' = "row_loop" /\ A_rowidx' = 0
     ELSE pc' = "done" /\ UNCHANGED A_rowidx
  /\ UNCHANGED <<A, B, A_rows, width, B_cols, simd_width, B0_colidx, B0_col,
                 A_live, A_end, B_live, sums, callbacks, readsA, readsB, readlog>>
  /\ UNCHANGED <<qvars, svars>>

\* a mutant: the row loop stops one row early
RowCondOffByOne(row, rows) == row + 1 < rows

\* line 238: A_rowidx < A_rows
RowCond(row, rows) == row < rows

\* a mutant: the strip advances by one chunk's registers only
NextB0colShort(col, sw) == col + sw

\* line 236: B0_col += 8 * simd_width
NextB0col(col, sw) == col + 8 * sw

\* lines 238-242 (and the increment of line 236 when the rows are exhausted)
RowLoop ==
  /\ pc = "row_loop"
  /\ IF RowCond(A_rowidx, A_rows)
     THEN /\ pc' = "first_iter"
          /\ A_live' = A_rowidx * simd_width
          /\ A_end' = A_rowidx * simd_width + simd_width
          /\ B_live' = B0_col
          /\ readsA' = <<>> /\ readsB' = <<>>
          /\ UNCHANGED <<B0_col, B0_colidx>>
     ELSE /\ pc' = "strip_loop"
          /\ B0_col' = NextB0col(B0_col, simd_width)
          /\ B0_colidx' = B0_colidx + 8
          /\ UNCHANGED <<A_live, A_end, B_live, readsA, readsB>>
  /\ UNCHANGED <<A, B, A_rows, width, B_cols, simd_width, A_rowidx, sums,
                 callbacks, readlog>>
  /\ UNCHANGED <<qvars, svars>>

\* lines 246-256 / 279-299: sign mask, absolute value, masked negation of
\* the eight B registers, multiply-add into 16-bit pair sums
PairSums(a, b) ==
  LET neg_mask == TestEpi8Mask(a)
      a_positive == AbsEpi8(a)
  IN [j \in 1..8 |->
        MaddubsEpi16(a_positive, MaskSubEpi8(b[j], neg_mask, Zeros, b[j]))]

BRegs(g) == [j \in 1..8 |-> LoadOr(B, B_live + j - 1, g)]

ReadOutOfBounds ==
  \/ ~InBounds(A, A_live)
  \/ \E j \in 0..7 : ~InBounds(B, B_live + j)

\* lines 245-259: the first iteration, taken whatever simd_width is
FirstIter ==
  /\ pc = "first_iter"
  /\ \E ga \in Garbage, gb \in Garbage :
       /\ ~ReadOutOfBounds => (ga = Splat8(1) /\ gb = Splat8(1))
       /\ sums' = PairSums(LoadOr(A, A_live, ga), BRegs(gb))
  /\ readsA' = Append(readsA, A_live)
  /\ readsB' = readsB \o [j \in 1..8 |-> B_live + j - 1]
  /\ A_live' = A_live + 1
  /\ B_live' = B_live + 8
  /\ pc' = "inner_loop"
  /\ UNCHANGED <<A, B, A_rows, width, B_cols, simd_width, B0_colidx, B0_col,
                 A_rowidx, A_end, callbacks, readlog>>
  /\ UNCHANGED <<qvars, svars>>

\* line 263: A_live != A_end
LoopCond(live, end) == live # end

\* lines 263-312: one further chunk of the shared dimension
InnerLoop ==
  /\ pc = "inner_loop"
  /\ LoopCond(A_live, A_end)
  /\ A_live <= A_end + MaxOverrun
  /\ \E ga \in Garbage, gb \in Garbage :
       /\ ~ReadOutOfBounds => (ga = Splat8(1) /\ gb = Splat8(1))
       /\ LET b == PairSums(LoadOr(A, A_live, ga), BRegs(gb))
          IN sums' = [j \in 1..8 |-> AddsEpi16(sums[j], b[j])]
  /\ readsA' = Append(readsA, A_live)
  /\ readsB' = readsB \o [j \in 1..8 |-> B_live + j - 1]
  /\ A_live' = A_live + 1
  /\ B_live' = B_live + 8
  /\ UNCHANGED <<pc, A, B, A_rows, width, B_cols, simd_width, B0_colidx,
                 B0_col, A_rowidx, A_end, callbacks, readlog>>
  /\ UNCHANGED <<qvars, svars>>

\* the other outcome of a load outside the buffers: the process faults
Segfault ==
  /\ pc \in {"first_iter", "inner_loop"}
  /\ pc = "inner_loop" => LoopCond(A_live, A_end)
  /\ ReadOutOfBounds
  /\ pc' = "crashed"
  /\ UNCHANGED <<A, B, A_rows, width, B_cols, simd_width, B0_colidx, B0_col,
                 A_rowidx, A_live, A_end, B_live, sums, callbacks, readsA,
                 readsB, readlog>>
  /\ UNCHANGED <<qvars, svars>>

\* lines 314-326: widen to 32 bits and reduce to eight column totals
Total(s) ==
  LET w == [j \in 1..8 |-> MaddEpi16Ones(s[j])]
  IN PermuteSummer(Pack0123(w[1], w[2], w[3], w[4]),
                   Pack0123(w[5], w[6], w[7], w[8]))

\* lines 313-328: leave the inner loop, reduce, call back, next row
Reduce ==
  /\ pc = "inner_loop"
  /\ ~LoopCond(A_live, A_end)
  /\ callbacks' = Append(callbacks,
       [total |-> Total(sums), A_rowidx |-> A_rowidx, B0_colidx |-> B0_colidx,
        A_rows |-> A_rows, width |-> width, B_cols |-> B_cols])
  /\ readlog' = Append(readlog,
       [row |-> A_rowidx, col |-> B0_colidx, base |-> B0_col,
        a |-> readsA, b |-> readsB])
  /\ A_rowidx' = A_rowidx + 1
  /\ pc' = "row_loop"
  /\ UNCHANGED <<A, B, A_rows, width, B_cols, simd_width, B0_colidx, B0_col,
                 A_live, A_end, B_live, sums, readsA, readsB>>
  /\ UNCHANGED <<qvars, svars>>

Next ==
  \/ Enter
  \/ StripLoop
  \/ RowLoop
  \/ FirstIter
  \/ InnerLoop
  \/ Segfault
  \/ Reduce

Spec == Init /\ [][Next]_vars


(***************************************************************************)
(* Properties of Multiply.                                                 *)
(***************************************************************************)
ValidSizes == width % RegBytes = 0 /\ B_cols % 8 = 0

StripStarts == {ColStride * s : s \in 0..((B_cols \div 8) - 1)}

\* C1: for A_rows >= 0, B_cols a multiple of 8 and width a positive multiple
\* of 64, the callback is invoked exactly A_rows * (B_cols/8) times, once for
\* each pair (row, strip start), and its remaining arguments are the call's
\* own A_rows, width and B_cols.
C1_CallbackCount ==
  (ValidSizes /\ width > 0) =>
    /\ pc \notin {"crashed", "assert_failed"}
    /\ \A i \in DOMAIN callbacks :
         /\ callbacks[i].A_rowidx \in 0..(A_rows - 1)
         /\ callbacks[i].B0_colidx \in StripStarts
         /\ callbacks[i].A_rows = A_rows
         /\ callbacks[i].width = width
         /\ callbacks[i].B_cols = B_cols
    /\ \A i, k \in DOMAIN callbacks :
         i # k => <<callbacks[i].A_rowidx, callbacks[i].B0_colidx>>
                  # <<callbacks[k].A_rowidx, callbacks[k].B0_colidx>>
    /\ pc = "done" => Len(callbacks) = A_rows * (B_cols \div 8)

C1_Witness ==
  /\ pc = "done" /\ A_rows = 2 /\ B_cols = 16 /\ width = 128
  /\ Len(callbacks) = 4

\* The callback list only grows (Reduce appends to it), so what holds of each
\* invocation in the state that follows it holds of every invocation.
JustCalled ==
  /\ pc = "row_loop" /\ callbacks # <<>>
  /\ callbacks[Len(callbacks)].A_rowidx = A_rowidx - 1
  /\ callbacks[Len(callbacks)].B0_colidx = B0_colidx

LastCall == callbacks[Len(callbacks)]

\* The exact signed dot product of row r of A with column j (1..8) of
\* strip s (0-based) of the packed B, over the first n bytes of the row.
BByte(s, j, i) ==
  B[(s * 8 * (width \div RegBytes) + ((i - 1) \div RegBytes) * 8 + (j - 1)) * RegBytes
    + ((i - 1) % RegBytes) + 1]

RECURSIVE DotRange(_, _, _, _, _)
DotRange(r, s, j, lo, hi) ==
  IF lo > hi THEN 0
  ELSE IF lo = hi THEN A[r * width + lo] * BByte(s, j, lo)
  ELSE LET mid == (lo + hi) \div 2
       IN DotRange(r, s, j, lo, mid) + DotRange(r, s, j, mid + 1, hi)

Dot(r, s, j, n) == DotRange(r, s, j, 1, n)

\* The exact sum of 16-bit lane i (1..32) over the first k chunks.
ExactPair(r, s, j, k, i) ==
  LET p == (k - 1) * RegBytes + 2 * i
  IN A[r * width + p - 1] * BByte(s, j, p - 1) + A[r * width + p] * BByte(s, j, p)

RECURSIVE ExactPrefix(_, _, _, _, _)
ExactPrefix(r, s, j, k, i) ==
  IF k = 0 THEN 0 ELSE ExactPair(r, s, j, k, i) + ExactPrefix(r, s, j, k - 1, i)

NoSaturation(r, s, j) ==
  \A i \in Lanes16 : \A k \in 1..(width \div RegBytes) :
    /\ ExactPair(r, s, j, k, i) > Int16Min /\ ExactPair(r, s, j, k, i) < Int16Max
    /\ ExactPrefix(r, s, j, k, i) > Int16Min /\ ExactPrefix(r, s, j, k, i) < Int16Max

BytesInRange(mem) == \A i \in DOMAIN mem : mem[i] >= -127 /\ mem[i] <= 127

\* C3: when every byte of A and of the packed B lies in [-127, 127] and no
\* 16-bit partial sum reaches the saturation bounds, each accumulator handed
\* to the callback is exactly the signed dot product of the row of A with the
\* column's packed B bytes.
C3_ExactDotProduct ==
  (JustCalled /\ BytesInRange(A) /\ BytesInRange(B)) =>
    \A j \in 1..8 :
      NoSaturation(LastCall.A_rowidx, LastCall.B0_colidx \div 8, j) =>
        LastCall.total[j] = Dot(LastCall.A_rowidx, LastCall.B0_colidx \div 8, j, width)

C3_Witness ==
  /\ JustCalled /\ BytesInRange(A) /\ BytesInRange(B)
  /\ \E i \in DOMAIN A : A[i] = -127
  /\ \E i \in DOMAIN B : B[i] = -127
  /\ width = 128
  /\ \E j \in 1..8 :
       /\ NoSaturation(LastCall.A_rowidx, LastCall.B0_colidx \div 8, j)
       /\ LastCall.total[j] # 0

AllZero(mem) == \A i \in DOMAIN mem : mem[i] = 0

\* C4: if every element of A is 0, or every element of the packed B is 0,
\* all eight accumulators of every callback invocation are 0, whatever the
\* bytes (-128 included) of the other operand.
C4_ZeroOperand ==
  (AllZero(A) \/ AllZero(B)) =>
    \A c \in DOMAIN callbacks : \A j \in 1..8 : callbacks[c].total[j] = 0

C4_Witness ==
  /\ AllZero(B)
  /\ \E i \in DOMAIN A : A[i] = -128
  /\ \E i \in DOMAIN A : A[i] = 2
  /\ Len(callbacks) >= 2

NothingRead == readsA = <<>> /\ readsB = <<>> /\ readlog = <<>>

\* C6: with B_cols % 8 # 0 or width not a multiple of 64 the call fails an
\* assertion before any register of A or B is read and before any callback.
C6_AssertBeforeWork ==
  ~ValidSizes => /\ pc \in {"call", "assert_failed"}
                 /\ NothingRead
                 /\ callbacks = <<>>

C6_Witness ==
  /\ pc = "assert_failed"
  /\ B_cols % 8 # 0 /\ width % RegBytes = 0 /\ width > 0 /\ A_rows > 0
  /\ NothingRead /\ callbacks = <<>>

\* C8: the callbacks come strip by strip, the rows of one strip in increasing
\* order, and the packed-B base of strip c is register (c/8) * 8 * (width/64).
C8_StripMajorOrder ==
  /\ Len(readlog) = Len(callbacks)
  /\ \A i \in DOMAIN callbacks :
       /\ callbacks[i].A_rowidx = (i - 1) % A_rows
       /\ callbacks[i].B0_colidx = 8 * ((i - 1) \div A_rows)
       /\ readlog[i].row = callbacks[i].A_rowidx
       /\ readlog[i].col = callbacks[i].B0_colidx
       /\ readlog[i].base = (callbacks[i].B0_colidx \div 8) * 8 * (width \div RegBytes)

C8_Witness ==
  /\ Len(callbacks) >= 3 /\ A_rows = 2 /\ width = 128
  /\ callbacks[2].A_rowidx = 1 /\ callbacks[2].B0_colidx = 0
  /\ callbacks[3].A_rowidx = 0 /\ callbacks[3].B0_colidx = 8
  /\ readlog[3].base = 16

RangeOf(seq) == {seq[i] : i \in DOMAIN seq}

\* C9: under the asserted preconditions (width = 0 included) the call never
\* faults; while a (row, strip) is being accumulated (readsA and readsB hold
\* its reads until the next RowLoop clears them, so they are compared with
\* A_rowidx and B0_col only inside the inner loop) every register read of A
\* lies in that row and every register of B in that strip's block; and a
\* finished (row, strip) has read exactly width/64 registers of A and
\* 8 * (width/64) of B.
C9_ReadsInBounds ==
  ValidSizes =>
    /\ pc # "crashed"
    /\ pc = "inner_loop" =>
         /\ \A i \in DOMAIN readsA :
              /\ readsA[i] >= A_rowidx * simd_width
              /\ readsA[i] < (A_rowidx + 1) * simd_width
         /\ \A i \in DOMAIN readsB :
              readsB[i] >= B0_col /\ readsB[i] < B0_col + 8 * simd_width
    /\ \A i \in DOMAIN readlog :
         /\ Len(readlog[i].a) = simd_width
         /\ RangeOf(readlog[i].a) =
              {readlog[i].row * simd_width + k : k \in 0..(simd_width - 1)}
         /\ Len(readlog[i].b) = 8 * simd_width
         /\ RangeOf(readlog[i].b) =
              {readlog[i].base + k : k \in 0..(8 * simd_width - 1)}

\* The reads are as C9 states on every call with a nonempty shared dimension:
\* only width = 0 breaks it.
ReadsInBoundsPositiveWidth == width > 0 => C9_ReadsInBounds

\* The 16-bit pair sum the kernel forms from two adjacent products: |a| taken
\* as unsigned, b negated in 8 bits where a is negative.
PairSumLane(a0, b0, a1, b1) ==
  LET U(x) == IF x < 0 THEN Wrap8(0 - x) + (IF x = -128 THEN 256 ELSE 0) ELSE x
      N(x, y) == IF x < 0 THEN Wrap8(0 - y) ELSE y
  IN Sat16(U(a0) * N(a0, b0) + U(a1) * N(a1, b1))

\* Lane i (1..32) of column j after k chunks: the saturating fold.
RECURSIVE LaneFold(_, _, _, _, _)
LaneFold(r, s, j, k, i) ==
  IF k = 0 THEN 0
  ELSE LET p == (k - 1) * RegBytes + 2 * i
       IN Sat16(LaneFold(r, s, j, k - 1, i)
                + PairSumLane(A[r * width + p - 1], BByte(s, j, p - 1),
                              A[r * width + p], BByte(s, j, p)))

RECURSIVE SumLaneRange(_, _, _, _, _)
SumLaneRange(r, s, j, lo, hi) ==
  IF lo = hi THEN LaneFold(r, s, j, simd_width, lo)
  ELSE LET mid == (lo + hi) \div 2
       IN SumLaneRange(r, s, j, lo, mid) + SumLaneRange(r, s, j, mid + 1, hi)

SumLanes(r, s, j, n) == SumLaneRange(r, s, j, 1, n)

\* C10: across the chunks each 16-bit lane holds clamp(previous + pairSum,
\* -32768, 32767); the total delivered for a column is the sum of its 32
\* clamped lane sums and so lies in [-32*32768, 32*32767].
C10_SaturatingAccumulate ==
  /\ (pc = "inner_loop" /\ simd_width > 0) =>
       \A j \in 1..8 : \A i \in Lanes16 :
         sums[j][i] = LaneFold(A_rowidx, B0_colidx \div 8, j,
                               A_live - A_rowidx * simd_width, i)
  /\ JustCalled =>
       \A j \in 1..8 :
         LastCall.total[j] = SumLanes(LastCall.A_rowidx, LastCall.B0_colidx \div 8, j, 32)
  /\ \A c \in DOMAIN callbacks : \A j \in 1..8 :
       /\ callbacks[c].total[j] >= 32 * Int16Min
       /\ callbacks[c].total[j] <= 32 * Int16Max

C10_Witness ==
  /\ width = 128 /\ JustCalled
  /\ LastCall.total[1] = 32 * Int16Max
  /\ \E i \in DOMAIN A : A[i] = 127

(***************************************************************************)
(* Single-precision arithmetic.  A float is [s, m, e] with value           *)
(* s * m * 2^e, s in {1, -1}, and m = 0 (zero) or 2^23 <= m < 2^24         *)
(* (normal numbers; the inputs keep every product normal and finite).      *)
(* Products are formed on 12-bit limbs so that every intermediate fits     *)
(* 32 bits.                                                                *)
(***************************************************************************)
Pow2Table ==
  << 1, 2, 4, 8, 16, 32, 64, 128, 256, 512, 1024, 2048, 4096, 8192, 16384,
     32768, 65536, 131072, 262144, 524288, 1048576, 2097152, 4194304,
     8388608, 16777216, 33554432, 67108864, 134217728, 268435456, 536870912,
     1073741824 >>

Pow2(n) == Pow2Table[n + 1]

Flt(sign, mant, exp) == [s |-> sign, m |-> mant, e |-> exp]

IntMin == -2147483647 - 1

\* The 48-bit product of two 24-bit significands as H * 2^24 + L.
Limbs(m1, m2) ==
  LET a1 == m1 \div 4096
      b1 == m1 % 4096
      a2 == m2 \div 4096
      b2 == m2 % 4096
      mid == a1 * b2 + a2 * b1
      t == (mid % 4096) * 4096 + b1 * b2
  IN [H |-> a1 * a2 + mid \div 4096 + t \div Pow2(24), L |-> t % Pow2(24)]

\* _mm512_mul_ps: the product rounded to nearest, ties to even
MulPs(x, y) ==
  IF x.m = 0 \/ y.m = 0 THEN Flt(x.s * y.s, 0, 0)
  ELSE LET P == Limbs(x.m, y.m)
           big == P.H >= Pow2(23)
           mant0 == IF big THEN P.H ELSE 2 * P.H + P.L \div Pow2(23)
           rem == IF big THEN P.L ELSE P.L % Pow2(23)
           half == IF big THEN Pow2(23) ELSE Pow2(22)
           e0 == x.e + y.e + (IF big THEN 24 ELSE 23)
           up == rem > half \/ (rem = half /\ mant0 % 2 = 1)
           mant1 == IF up THEN mant0 + 1 ELSE mant0
       IN IF mant1 = Pow2(24) THEN Flt(x.s * y.s, Pow2(23), e0 + 1)
          ELSE Flt(x.s * y.s, mant1, e0)

\* a mutant: conversion by truncation (_mm512_cvttps_epi32)
CvttPsEpi32(f) ==
  IF f.m = 0 THEN 0
  ELSE IF f.e >= 8 THEN IntMin
  ELSE IF f.e >= 0 THEN f.s * f.m * Pow2(f.e)
  ELSE IF 0 - f.e > 24 THEN 0
  ELSE f.s * (f.m \div Pow2(0 - f.e))

\* _mm512_cvtps_epi32: round to nearest integer, ties to even (the default
\* rounding mode); a value outside 32 bits gives 0x80000000
CvtPsEpi32(f) ==
  IF f.m = 0 THEN 0
  ELSE IF f.e >= 8 THEN IntMin
  ELSE IF f.e >= 0 THEN f.s * f.m * Pow2(f.e)
  ELSE IF 0 - f.e > 24 THEN 0
  ELSE LET d == Pow2(0 - f.e)
           I == f.m \div d
           rem == f.m % d
           up == 2 * rem > d \/ (2 * rem = d /\ I % 2 = 1)
       IN f.s * (IF up THEN I + 1 ELSE I)

\* kernels::quantize(input, quant_mult): multiply, then convert with rounding
kernels_quantize(x, quant_mult) == CvtPsEpi32(MulPs(x, quant_mult))

\* lines 38-40, one lane
QuantizerGrab(x, quant_mult) == kernels_quantize(x, quant_mult)

(***************************************************************************)
(* AVX512_8bit::Quantize, lines 189-201.                                   *)
(***************************************************************************)
Max(a, b) == IF a > b THEN a ELSE b

\* a mutant: the clamp to -127 left out
MaxEpi32None(a, b) == a

\* _mm512_max_epi32, one lane
MaxEpi32(a, b) == Max(a, b)

\* _mm512_mask_cvtsepi32_storeu_epi8: signed saturation of 32 to 8 bits
CvtsEpi32Epi8(v) == IF v > 127 THEN 127 ELSE IF v < -128 THEN -128 ELSE v

\* lines 196-199, one lane
QuantizeLane(x, quant_mult) ==
  CvtsEpi32Epi8(MaxEpi32(QuantizerGrab(x, quant_mult), -127))

\* lines 190 and 194-200: the assertion on size, then size/16 groups of 16
Quantize ==
  /\ "Quantize" \notin q_called
  /\ q_called' = q_called \cup {"Quantize"}
  /\ q_output' = IF q_size % 16 = 0
                 THEN [i \in 1..q_size |-> QuantizeLane(q_input[i], q_mult)]
                 ELSE <<>>
  /\ UNCHANGED <<q_input, q_mult, q_size, q_cols, q_off, q_tile>>
  /\ UNCHANGED <<mvars, svars>>

(***************************************************************************)
(* avx512f::QuantizeTile8::ForReshape, lines 93-113.  Registers are        *)
(* tuples of 16 dwords, 32 words or 64 bytes.                              *)
(***************************************************************************)
\* lines 58-62: two 8-float halves, multiplied and converted
QuantizerGrabHalves(in0, in1, quant_mult) ==
  [d \in 1..16 |->
     CvtPsEpi32(MulPs(IF d <= 8 THEN q_input[in0 + d] ELSE q_input[in1 + d - 8],
                      quant_mult))]

SatEpi16(v) == IF v > 32767 THEN 32767 ELSE IF v < -32768 THEN -32768 ELSE v

SatEpi8(v) == IF v > 127 THEN 127 ELSE IF v < -128 THEN -128 ELSE v

\* _mm512_packs_epi32: per 128-bit lane, 4 dwords of a then 4 dwords of b,
\* saturated to 16 bits
PacksEpi32(a, b) ==
  [w \in 1..32 |->
     LET lane == (w - 1) \div 8
         k == (w - 1) % 8
     IN IF k < 4 THEN SatEpi16(a[4 * lane + k + 1])
        ELSE SatEpi16(b[4 * lane + k - 4 + 1])]

\* _mm512_packs_epi16: per 128-bit lane, 8 words of a then 8 words of b,
\* saturated to 8 bits
PacksEpi16(a, b) ==
  [y \in 1..64 |->
     LET lane == (y - 1) \div 16
         k == (y - 1) % 16
     IN IF k < 8 THEN SatEpi8(a[8 * lane + k + 1])
        ELSE SatEpi8(b[8 * lane + k - 8 + 1])]

\* _mm512_max_epi8(a, set1(v))
MaxEpi8(a, v) == [y \in 1..64 |-> Max(a[y], v)]

\* line 97: _mm512_set_epi32 lists the dwords from the highest down
shuffle_param == <<0, 4, 8, 12, 1, 5, 9, 13, 2, 6, 10, 14, 3, 7, 11, 15>>

\* _mm512_permutexvar_epi32(idx, a): dword i of the result is dword idx[i] of a
PermutexvarEpi32(idx, a) ==
  [y \in 1..64 |-> a[4 * idx[((y - 1) \div 4) + 1] + ((y - 1) % 4) + 1]]

\* lines 93-113, reading the buffer from offset `input`
ForReshapeTile(input, cols, quant_mult) ==
  LET g0 == QuantizerGrabHalves(input, input + 2 * cols, quant_mult)
      g1 == QuantizerGrabHalves(input + 16 * cols, input + 18 * cols, quant_mult)
      g2 == QuantizerGrabHalves(input + 32 * cols, input + 34 * cols, quant_mult)
      g3 == QuantizerGrabHalves(input + 48 * cols, input + 50 * cols, quant_mult)
      packed0 == PacksEpi32(g0, g1)
      packed1 == PacksEpi32(g2, g3)
      packed == PacksEpi16(packed0, packed1)
  IN PermutexvarEpi32(shuffle_param, MaxEpi8(packed, -127))

ForReshape ==
  /\ "ForReshape" \notin q_called
  /\ q_called' = q_called \cup {"ForReshape"}
  /\ q_tile' = ForReshapeTile(q_off, q_cols, q_mult)
  /\ UNCHANGED <<q_input, q_mult, q_size, q_cols, q_off, q_output>>
  /\ UNCHANGED <<mvars, svars>>

(***************************************************************************)
(* Inputs of the quantizers.                                               *)
(***************************************************************************)
MaxGroups == 2
MaxColBlocks == 2

f_one == Flt(1, 8388608, -23)

\* 0.50000006, the float after 0.5
f_half_up == Flt(1, 8388609, -24)

f_1_5 == Flt(1, 12582912, -23)

\* 0.5 1.5 2.5 -0.5 -1.5 126.5 -126.5 127 -127 0 126.49999 100.25 -100.75
HalfwayFloats ==
  << Flt(1, 8388608, -24), Flt(1, 12582912, -23), Flt(1, 10485760, -22),
     Flt(-1, 8388608, -24), Flt(-1, 12582912, -23), Flt(1, 16580608, -17),
     Flt(-1, 16580608, -17), Flt(1, 16646144, -17), Flt(-1, 16646144, -17),
     Flt(1, 0, 0), Flt(1, 16580607, -17), Flt(1, 13139968, -17),
     Flt(-1, 13205504, -17) >>

\* 127.5 -127.5 128 -128 -129 300 -300 40000 -40000 3e9 -3e9
LargeFloats ==
  << Flt(1, 16711680, -17), Flt(-1, 16711680, -17), Flt(1, 8388608, -16),
     Flt(-1, 8388608, -16), Flt(-1, 8454144, -16), Flt(1, 9830400, -15),
     Flt(-1, 9830400, -15), Flt(1, 10240000, -8), Flt(-1, 10240000, -8),
     Flt(1, 11718750, 8), Flt(-1, 11718750, 8) >>

\* 0.99999994 0.3 -0.7 1.1 84.333336 63.5 0.25
OddFloats ==
  << Flt(1, 16777215, -24), Flt(1, 10066330, -25), Flt(-1, 11744051, -24),
     Flt(1, 9227469, -23), Flt(1, 11053739, -17), Flt(1, 16646144, -18),
     Flt(1, 8388608, -25) >>

FloatPatterns == {HalfwayFloats, LargeFloats, OddFloats, HalfwayFloats \o LargeFloats}

Multipliers == {f_one, f_half_up, f_1_5}

\* some of the rows (0, 1, 4, 5, 8, 9, 12, 13) at which PrepareB hands a tile
\* to ForReshape
TileRows == {0, 5, 13}

QuantizeSizes == {16 * g : g \in 0..MaxGroups} \cup {8}

InitQuantize ==
  \E pat \in FloatPatterns, mult \in Multipliers, sz \in QuantizeSizes,
     cb \in 1..MaxColBlocks, tr \in TileRows :
    \E tc \in 0..(cb - 1) :
      /\ q_input = Fill(pat, 64 * 8 * cb)
      /\ q_mult = mult
      /\ q_size = sz
      /\ q_cols = 8 * cb
      /\ q_off = 8 * cb * tr + 8 * tc
      /\ q_output = <<>> /\ q_tile = <<>> /\ q_called = {}
      /\ MIdle /\ SIdle

NextQuantize ==
  \/ Quantize
  \/ ForReshape

SpecQuantize == InitQuantize /\ [][NextQuantize]_vars

(***************************************************************************)
(* Properties of the quantizers.                                           *)
(***************************************************************************)
Clamp127(v) == IF v > 127 THEN 127 ELSE IF v < -127 THEN -127 ELSE v

\* The buffer offset (0-based, from the tile's input pointer) whose value
\* lands in byte i (0..63) of the register ForReshape returns.
TileSrc(i, cols) == (16 * (i \div 16) + 2 * ((i % 16) \div 8)) * cols + (i % 8)

\* C2: every byte Quantize writes and every byte ForReshape returns is the
\* rounded 32-bit v clamped to [-127, 127]: v itself in that range, 127
\* above it, -127 below it; -128 never appears.
C2_ClampTo127 ==
  /\ \A i \in DOMAIN q_output :
       /\ q_output[i] = Clamp127(kernels_quantize(q_input[i], q_mult))
       /\ q_output[i] >= -127 /\ q_output[i] <= 127
  /\ \A i \in DOMAIN q_tile :
       /\ q_tile[i] = Clamp127(kernels_quantize(
                         q_input[q_off + TileSrc(i - 1, q_cols) + 1], q_mult))
       /\ q_tile[i] >= -127 /\ q_tile[i] <= 127

C2_Witness ==
  /\ q_called = {"Quantize", "ForReshape"}
  /\ \E i \in DOMAIN q_output :
       q_output[i] = -127 /\ kernels_quantize(q_input[i], q_mult) = -128
  /\ \E i \in DOMAIN q_output :
       q_output[i] = -127 /\ kernels_quantize(q_input[i], q_mult) = IntMin
  /\ \E i \in DOMAIN q_output :
       q_output[i] = 127 /\ kernels_quantize(q_input[i], q_mult) > 32767
  /\ \E i \in DOMAIN q_tile :
       q_tile[i] = -127 /\ kernels_quantize(
           q_input[q_off + TileSrc(i - 1, q_cols) + 1], q_mult) < -32768
  /\ \E i \in DOMAIN q_tile : q_tile[i] = 127
  /\ \E i \in DOMAIN q_tile : q_tile[i] = 0

\* floor(2 * v) and whether 2 * v is an integer, for
\* v = (H * 2^24 + L) * 2^E >= 2^46 * 2^E or v = 0; from 2^29 on, 2^29.
Floor2(H, L, E) ==
  IF H = 0 /\ L = 0 THEN [ip |-> 0, fz |-> TRUE]
  ELSE IF E + 1 >= -17 THEN [ip |-> Pow2(29), fz |-> TRUE]
  ELSE LET sh == 0 - (E + 1)
       IN IF sh >= 48 THEN [ip |-> 0, fz |-> FALSE]
          ELSE IF sh >= 24
          THEN [ip |-> H \div Pow2(sh - 24), fz |-> H % Pow2(sh - 24) = 0 /\ L = 0]
          ELSE [ip |-> H * Pow2(24 - sh) + L \div Pow2(sh), fz |-> L % Pow2(sh) = 0]

\* |v| <= 126.5
AtMost126_5(f2) == f2.ip < 253 \/ (f2.ip = 253 /\ f2.fz)

\* |q - v| <= 0.5 for v of sign s with 2|v| given by f2
WithinHalf(q, s, f2) ==
  LET Q == IF q < 0 THEN 0 - q ELSE q
  IN /\ q = 0 \/ (q > 0 /\ s = 1) \/ (q < 0 /\ s = -1)
     /\ f2.ip >= 2 * Q - 1
     /\ f2.ip < 2 * Q + 1 \/ (f2.ip = 2 * Q + 1 /\ f2.fz)

\* the real product x * m
ExactFloor2(x, m) ==
  IF x.m = 0 \/ m.m = 0 THEN [ip |-> 0, fz |-> TRUE]
  ELSE LET P == Limbs(x.m, m.m) IN Floor2(P.H, P.L, x.e + m.e)

\* the single-precision product the code computes
ComputedFloor2(x, m) ==
  LET p == MulPs(x, m) IN Floor2(p.m, 0, p.e - 24)

\* C7 as stated: for every x and positive multiplier m with |x*m| <= 126.5
\* (the real product), the quantized q satisfies |q - x*m| <= 0.5.
C7_RoundTripExact ==
  \A i \in DOMAIN q_output :
    AtMost126_5(ExactFloor2(q_input[i], q_mult)) =>
      WithinHalf(q_output[i], q_input[i].s, ExactFloor2(q_input[i], q_mult))

\* C7 amended: with p the single-precision product of x and m that the code
\* rounds, |p| <= 126.5 implies |q - p| <= 0.5.
C7_RoundTripComputed ==
  \A i \in DOMAIN q_output :
    AtMost126_5(ComputedFloor2(q_input[i], q_mult)) =>
      WithinHalf(q_output[i], q_input[i].s, ComputedFloor2(q_input[i], q_mult))

C7_Witness ==
  /\ "Quantize" \in q_called /\ q_mult = f_one
  /\ \E i \in DOMAIN q_output : q_input[i] = Flt(1, 16580608, -17) /\ q_output[i] = 126
  /\ \E i \in DOMAIN q_output : q_input[i] = Flt(-1, 12582912, -23) /\ q_output[i] = -2
  /\ \E i \in DOMAIN q_output : q_input[i] = Flt(1, 13139968, -17) /\ q_output[i] = 100

(***************************************************************************)
(* PrepareB's layout and SelectColumnsB, lines 164-166 and 214-216.        *)
(* The packed B is a sequence of elements; a register holds 64 bytes of    *)
(* them.  Register 8 * K * s + 8 * k + j of the packed B (K registers per  *)
(* column) holds the rows of chunk k of column 8 * s + j, which is the     *)
(* layout Multiply streams.                                                *)
(***************************************************************************)
MaxRowBlocks == 2
MaxSeeds == 4

AVX512_16bit_kBTileRow == 32
AVX512_8bit_kBTileRow == 64
kBTileCol == 8

ElemBytes(backend) == IF backend = "8bit" THEN 1 ELSE 2

TileRow(backend) ==
  IF backend = "8bit" THEN AVX512_8bit_kBTileRow ELSE AVX512_16bit_kBTileRow

\* the quantized element of B at (row, col), 0-based, for a seed
Element(seed, row, col) == ((row * 31 + col * 7 + seed * 13) % 251) - 125

\* PrepareB: element l of register 8 * K * s + 8 * k + j is B[T * k + l][8 * s + j]
PrepareB(backend, seed, rows, cols) ==
  LET T == TileRow(backend)
      K == rows \div T
  IN [i \in 1..(rows * cols) |->
        LET reg == (i - 1) \div T
            l == (i - 1) % T
            s == reg \div (8 * K)
            k == (reg % (8 * K)) \div 8
            j == reg % 8
        IN Element(seed, T * k + l, 8 * s + j)]

\* SelectColumnsOfB(input, output, rows_bytes, cols_begin, cols_end): for each
\* group of 8 indices, register r of the 8 selected columns, interleaved;
\* column c starts at register (c & 7) + (c & ~7) * register_rows
SelectColumnsOfB(input, elem_bytes, rows_bytes, cols_list) ==
  IF rows_bytes % RegBytes # 0 \/ Len(cols_list) % 8 # 0 THEN <<>>
  ELSE LET register_rows == rows_bytes \div RegBytes
           per == RegBytes \div elem_bytes
       IN [i \in 1..(Len(cols_list) * register_rows * per) |->
             LET o == (i - 1) \div per
                 g == o \div (8 * register_rows)
                 r == (o % (8 * register_rows)) \div 8
                 k == o % 8
                 c == cols_list[8 * g + k + 1]
                 src == (c % 8) + (c - (c % 8)) * register_rows + 8 * r
             IN input[src * per + ((i - 1) % per) + 1]]

\* lines 214-216: the 8-bit backend passes rows
AVX512_8bit_SelectColumnsB(input, rows, cols_list) ==
  SelectColumnsOfB(input, 1, rows, cols_list)

\* a mutant: the 16-bit backend passing rows, not the bytes of a column
AVX512_16bit_SelectRows(input, rows, cols_list) ==
  SelectColumnsOfB(input, 2, rows, cols_list)

\* lines 164-166: the 16-bit backend passes rows * 2
AVX512_16bit_SelectColumnsB(input, rows, cols_list) ==
  SelectColumnsOfB(input, 2, rows * 2, cols_list)

AllColumns(cols) == [i \in 1..cols |-> i - 1]

Selections(cols) ==
  { AllColumns(cols),
    [i \in 1..cols |-> cols - i],
    [i \in 1..8 |-> cols - 8 + ((i * 3) % 8)],
    [i \in 1..16 |-> IF i <= 8 THEN 0 ELSE cols - 1] }

InitSelect ==
  \E backend \in {"8bit", "16bit"}, rb \in 1..MaxRowBlocks,
     cb \in 1..MaxColBlocks, seed \in 1..MaxSeeds :
    /\ s_backend = backend
    /\ s_rows = TileRow(backend) * rb
    /\ s_cols = kBTileCol * cb
    /\ s_packed = PrepareB(backend, seed, TileRow(backend) * rb, kBTileCol * cb)
    /\ s_select = <<>> /\ s_output = <<>> /\ s_called = FALSE
    /\ MIdle /\ QIdle

SelectColumnsB ==
  /\ ~s_called
  /\ \E cl \in Selections(s_cols) :
       /\ s_select' = cl
       /\ s_output' = IF s_backend = "8bit"
                      THEN AVX512_8bit_SelectColumnsB(s_packed, s_rows, cl)
                      ELSE AVX512_16bit_SelectColumnsB(s_packed, s_rows, cl)
  /\ s_called' = TRUE
  /\ UNCHANGED <<s_backend, s_rows, s_cols, s_packed>>
  /\ UNCHANGED <<mvars, qvars>>

NextSelect == SelectColumnsB

SpecSelect == InitSelect /\ [][NextSelect]_vars

\* C5: selecting all columns 0, 1, ..., cols-1 in order from PrepareB(B)
\* gives a buffer equal element for element to PrepareB(B), in the 8-bit
\* backend (which passes rows) and in the 16-bit one (which passes rows * 2).
C5_SelectAllIsIdentity ==
  (s_called /\ s_select = AllColumns(s_cols)) => s_output = s_packed

C5_Witness ==
  /\ s_called /\ s_backend = "16bit" /\ s_rows = 64 /\ s_cols = 16
  /\ s_select = AllColumns(16)
  /\ s_output = s_packed
  /\ Len(s_output) = 1024
  /\ s_output[1] # s_output[33]

=============================================================================
